---------------------------- MODULE Spec2Model ----------------------------
(***************************************************************************)
(* One call of quadriflow_remesh (src/src/_pyquadriflow.cpp) running the   *)
(* pipeline run_quadriflow (src/src/pipeline.cpp) as a state machine.      *)
(*                                                                         *)
(* Arrays are 1-based sequences here: C element a[k] is a[k + 1].          *)
(* Positions are integer 3-vectors.  A unit direction is represented by    *)
(* the primitive integer vector on its ray (the vector divided by the gcd  *)
(* of its components): two integer vectors have the same normalisation     *)
(* exactly when they have the same primitive vector.  The weights 0.0 and  *)
(* 1.0 are the integers 0 and 1.                                           *)
(***************************************************************************)
EXTENDS Integers, Sequences, FiniteSets, TLC

VARIABLES
    pc,      \* position of the call: the next stage to run, "done" or "error"
    args,    \* the arguments of the call (never change)
    field,   \* the Parametrizer2 object of run_quadriflow
    mRes,    \* field.hierarchy, as read and written by the boundary loop
    i,       \* loop variable of the boundary-constraint loop
    trace,   \* the stages run and the engine calls made so far, in order, each
             \* with the argument it was given and whether it returned
    err,     \* message of the exception that ended the call, or "none"
    result,  \* the QuadriFlowResult built by run_quadriflow, or NoResult
    ret      \* the tuple returned to the caller, or NoResult

vars == <<pc, args, field, mRes, i, trace, err, result, ret>>

---------------------------------------------------------------------------
(* Bounds of the model. *)

MaxVerts == 2           \* most input vertices of the ingestion runs
MaxFaces == 2           \* most input faces of the ingestion runs
MaxBadFaces == 1        \* most input faces when indices may be out of range
MaxBoundaryVerts == 3   \* most input vertices of the boundary runs
MaxBoundaryFaces == 1   \* most input faces of the boundary runs
MaxSeed == 1            \* the seeds are 0 and MaxSeed
MaxOutVerts == 1        \* most vertices of the engine's compact output
MaxOutFaces == 1        \* most quads of the engine's compact output

(* Program constants. *)

TriCols == 3        \* columns of the input arrays, corners of a triangle
QuadCols == 4       \* indices per output face
HalfWord == 65536   \* 2^16: a uint32_t is kept as <<high 16 bits, low 16 bits>>
IntMax == 2147483647

---------------------------------------------------------------------------
(* Vectors. *)

Zero3 == <<0, 0, 0>>

VSub(a, b) == <<a[1] - b[1], a[2] - b[2], a[3] - b[3]>>

VAdd(a, b) == <<a[1] + b[1], a[2] + b[2], a[3] + b[3]>>

VScale(a, s) == <<a[1] * s, a[2] * s, a[3] * s>>

squaredNorm(a) == a[1] * a[1] + a[2] * a[2] + a[3] * a[3]

Abs(x) == IF x < 0 THEN 0 - x ELSE x

RECURSIVE Gcd(_, _)
Gcd(a, b) == IF b = 0 THEN a ELSE Gcd(b, a % b)

(* Eigen's normalize() on a non-zero vector: the unit vector of its ray.   *)
normalize(e) ==
    LET g == Gcd(Gcd(Abs(e[1]), Abs(e[2])), Abs(e[3]))
    IN  <<e[1] \div g, e[2] \div g, e[3] \div g>>

---------------------------------------------------------------------------
(* uint32_t conversion of an int, as <<high half, low half>>.              *)

ToU32(x) ==
    IF x >= 0
    THEN <<x \div HalfWord, x % HalfWord>>
    ELSE LET y == (x + IntMax) + 1     \* x + 2^31, in 0 .. 2^31 - 1
         IN  <<(y \div HalfWord) + (HalfWord \div 2), y % HalfWord>>

(* p >= n for a uint32_t p and a size n < 2^31. *)
U32GreaterEq(p, n) ==
    \/ p[1] > n \div HalfWord
    \/ p[1] = n \div HalfWord /\ p[2] >= n % HalfWord

(* The value of a uint32_t p known to be below 2^31. *)
U32Value(p) == p[1] * HalfWord + p[2]

(* obj_vertex(uint32_t _p): n and uv keep the sentinel (uint32_t)-1. *)
Sentinel == ToU32(-1)

obj_vertex(x) == [p |-> ToU32(x), n |-> Sentinel, uv |-> Sentinel]

(* obj_vertex::operator== *)
obj_vertex_eq(v, w) == v.p = w.p /\ v.n = w.n /\ v.uv = w.uv

---------------------------------------------------------------------------
(* Parametrizer2::LoadFromArrays: the deduplication loop.                  *)
(* st = [vertexMap, vertices, indices]; vertexMap is a function from the   *)
(* keys seen so far to their compact index.                                *)

EmptyIngest == [vertexMap |-> <<>>, vertices |-> <<>>, indices |-> <<>>]

(* vertexMap.find(v): the keys of the map equal to v (none or one). *)
Find(vertexMap, v) == {w \in DOMAIN vertexMap : obj_vertex_eq(w, v)}

(* IngestCorner with the map entry written after the push_back: a new key *)
(* is recorded under the size the vertex list has once it holds the key.   *)
IngestCornerLateSize(st, x) ==
    LET v == obj_vertex(x)
        hit == Find(st.vertexMap, v)
    IN  IF hit = {}
        THEN [vertexMap |-> (v :> Len(st.vertices) + 1) @@ st.vertexMap,
              indices   |-> Append(st.indices, Len(st.vertices)),
              vertices  |-> Append(st.vertices, v)]
        ELSE [st EXCEPT !.indices =
                 Append(@, st.vertexMap[CHOOSE w \in hit : TRUE])]

(* Body of the loop over j for one corner whose input index is x. *)
IngestCorner(st, x) ==
    LET v == obj_vertex(x)
        hit == Find(st.vertexMap, v)
    IN  IF hit = {}
        THEN [vertexMap |-> (v :> Len(st.vertices)) @@ st.vertexMap,
              indices   |-> Append(st.indices, Len(st.vertices)),
              vertices  |-> Append(st.vertices, v)]
        ELSE [st EXCEPT !.indices =
                 Append(@, st.vertexMap[CHOOSE w \in hit : TRUE])]

(* Corners k .. 3 * n_faces of face_indices, in input order. *)
RECURSIVE IngestFrom(_, _, _, _)
IngestFrom(st, face_indices, n_faces, k) ==
    IF k > TriCols * n_faces
    THEN st
    ELSE IngestFrom(IngestCorner(st, face_indices[k]), face_indices, n_faces, k + 1)

Ingest(face_indices, n_faces) == IngestFrom(EmptyIngest, face_indices, n_faces, 1)

(* FaceMatrix that rejects a face whose three corners are one vertex. *)
FaceMatrixNoDegenerate(indices) ==
    SelectSeq([f \in 1..(Len(indices) \div TriCols) |->
                  <<indices[TriCols * (f - 1) + 1],
                    indices[TriCols * (f - 1) + 2],
                    indices[TriCols * (f - 1) + 3]>>],
              LAMBDA t : ~(t[1] = t[2] /\ t[2] = t[3]))

(* F.resize(3, indices.size() / 3) and the memcpy: column f of F. *)
FaceMatrix(indices) ==
    [f \in 1..(Len(indices) \div TriCols) |->
        <<indices[TriCols * (f - 1) + 1],
          indices[TriCols * (f - 1) + 2],
          indices[TriCols * (f - 1) + 3]>>]

(* AtThrows with the index compared as a signed int: an index with the    *)
(* top bit set counts as negative and passes.                              *)
AtThrowsSigned(positions, p) ==
    p[1] < HalfWord \div 2 /\ U32GreaterEq(p, Len(positions))

(* positions.at(p) throws std::out_of_range when p >= positions.size(). *)
AtThrows(positions, p) == U32GreaterEq(p, Len(positions))

(* positions.at(p) when it returns.  (Zero3 stands for no value: the code *)
(* reads a position only after the range check has passed.)                *)
At(positions, p) ==
    IF p[1] = 0 /\ p[2] < Len(positions) THEN positions[U32Value(p) + 1] ELSE Zero3

(* Number of columns of V filled before the first at() that throws;       *)
(* Len(vertices) when none throws.                                        *)
RECURSIVE FilledFrom(_, _, _)
FilledFrom(positions, vertices, k) ==
    IF k > Len(vertices) \/ AtThrows(positions, vertices[k].p)
    THEN k - 1
    ELSE FilledFrom(positions, vertices, k + 1)

Filled(positions, vertices) == FilledFrom(positions, vertices, 1)

VertexMatrix(positions, vertices, n) ==
    [k \in 1..n |-> At(positions, vertices[k].p)]

(* Parametrizer::NormalizeMesh of the engine: recentres the mesh and      *)
(* records the offset and scale.  On the integer grid only the            *)
(* translation is applied; the positive rescaling changes neither which   *)
(* edges have zero length nor any edge's direction.                       *)
MinOf(S) == CHOOSE x \in S : \A y \in S : x <= y

MaxOf(S) == CHOOSE x \in S : \A y \in S : x >= y

Coord(V, c) == {V[k][c] : k \in 1..Len(V)}

BoxMin(V) == <<MinOf(Coord(V, 1)), MinOf(Coord(V, 2)), MinOf(Coord(V, 3))>>

BoxExtent(V) ==
    MaxOf({MaxOf(Coord(V, c)) - MinOf(Coord(V, c)) : c \in 1..3} \cup {1})

NormalizeMesh(fld) ==
    [fld EXCEPT !.normalize_offset = BoxMin(fld.V),
                !.normalize_scale = BoxExtent(fld.V),
                !.V = [k \in 1..Len(fld.V) |-> VSub(fld.V[k], BoxMin(fld.V))]]

---------------------------------------------------------------------------
(* State before and between the stages. *)

NoResult == [num_vertices |-> 0, num_faces |-> 0, vertices |-> <<>>, faces |-> <<>>]

(* A Parametrizer as its constructor leaves it: every flag 0. *)
Parametrizer0 ==
    [flag_preserve_sharp |-> 0, flag_preserve_boundary |-> 0,
     flag_adaptive_scale |-> 0, flag_aggresive_sat |-> 0,
     flag_minimum_cost_flow |-> 0, rng_seed |-> 0,
     F |-> <<>>, V |-> <<>>,
     normalize_scale |-> 1, normalize_offset |-> Zero3,
     O_compact |-> <<>>, F_compact |-> <<>>]

Hierarchy0 ==
    [mF |-> <<>>, mV |-> <<>>, mE2E |-> <<>>,
     mCO |-> <<>>, mCQ |-> <<>>, mCOw |-> <<>>, mCQw |-> <<>>]

Call(name, arg, ok) == [call |-> name, arg |-> arg, ok |-> ok]

Names(tr) == [k \in 1..Len(tr) |-> tr[k].call]

Throw(msg) == pc' = "error" /\ err' = msg

---------------------------------------------------------------------------
(* The calls the model explores. *)

(* Input position of vertex k (0-based): distinct points of a grid. *)
GridPoint(k) == <<(k % 2) * 2, k \div 2, 0>>

(* Position arrays of n vertices: the grid layout, and the grid layout    *)
(* with one vertex moved onto vertex 0 (two vertices at one position).    *)
Layouts(n) ==
    {[k \in 1..n |-> IF k - 1 = w THEN GridPoint(0) ELSE GridPoint(k - 1)] :
        w \in 0..(n - 1)}

GridLayout(n) == [k \in 1..n |-> GridPoint(k - 1)]

Flags == [preserve_sharp : BOOLEAN, preserve_boundary : BOOLEAN,
          adaptive_scale : BOOLEAN, aggressive_sat : BOOLEAN,
          minimum_cost_flow : BOOLEAN]

NoFlags == [preserve_sharp |-> FALSE, preserve_boundary |-> FALSE,
            adaptive_scale |-> FALSE, aggressive_sat |-> FALSE,
            minimum_cost_flow |-> FALSE]

MakeArgs(vcols, fcols, verts, n_faces, faces, target, seed, fl) ==
    [vcols |-> vcols, fcols |-> fcols,
     num_vertices |-> Len(verts), verts |-> verts,
     num_faces |-> n_faces, faces |-> faces,
     target_faces |-> target, seed |-> seed,
     preserve_sharp |-> fl.preserve_sharp,
     preserve_boundary |-> fl.preserve_boundary,
     adaptive_scale |-> fl.adaptive_scale,
     aggressive_sat |-> fl.aggressive_sat,
     minimum_cost_flow |-> fl.minimum_cost_flow]

Fresh ==
    /\ pc = "binding"
    /\ field = Parametrizer0
    /\ mRes = Hierarchy0
    /\ i = 0
    /\ trace = <<>>
    /\ err = "none"
    /\ result = NoResult
    /\ ret = NoResult

(* Triangle meshes of at most maxv vertices and maxf faces, every index    *)
(* in range, on the grid layout or, if welded, on every layout.            *)
InRangeCalls(maxv, maxf, welded, fl) ==
    \E n \in 1..maxv, m \in 1..maxf :
        \E verts \in (IF welded THEN Layouts(n) ELSE {GridLayout(n)}),
           f \in [1..(TriCols * m) -> 0..(n - 1)] :
            args = MakeArgs(TriCols, TriCols, verts, m, f, 1, 0, fl)

(* Triangle meshes with indices in -1 .. n, at least one out of range. *)
OutOfRange(x, n) == x < 0 \/ x >= n

BadIndexCalls ==
    \E n \in 1..MaxVerts, m \in 1..MaxBadFaces :
        \E f \in [1..(TriCols * m) -> (0 - 1)..n] :
            /\ \E k \in DOMAIN f : OutOfRange(f[k], n)
            /\ args = MakeArgs(TriCols, TriCols, GridLayout(n), m, f, 1, 0, NoFlags)

---------------------------------------------------------------------------
(* py_quadriflow_remesh, lines 26-34: the checks of the binding. *)
BindingChecks ==
    /\ pc = "binding"
    /\ IF args.vcols # TriCols
       THEN Throw("vertices must have shape (N, 3)")
       ELSE IF args.fcols # TriCols
       THEN Throw("faces must have shape (M, 3)")
       ELSE IF args.num_vertices = 0 \/ args.num_faces = 0
       THEN Throw("Input mesh is empty")
       ELSE pc' = "checks" /\ err' = err
    /\ UNCHANGED <<args, field, mRes, i, trace, result, ret>>

(* run_quadriflow, lines 111-116. *)
EmptyInput == args.num_vertices <= 0 \/ args.num_faces <= 0

(* BadTarget that lets a target of 0 through. *)
BadTargetNegativeOnly == args.target_faces < 0

BadTarget == args.target_faces <= 0

RunChecks ==
    /\ pc = "checks"
    /\ IF EmptyInput
       THEN Throw("Input mesh is empty")
       ELSE IF BadTarget
       THEN Throw("target_faces must be positive")
       ELSE pc' = "flags" /\ err' = err
    /\ UNCHANGED <<args, field, mRes, i, trace, result, ret>>

(* run_quadriflow, lines 118-127: a flag is written only when set. *)
SetFlag(b, old) == IF b THEN 1 ELSE old

ApplyFlags ==
    /\ pc = "flags"
    /\ field' = [field EXCEPT
          !.flag_preserve_sharp = SetFlag(args.preserve_sharp, @),
          !.flag_preserve_boundary = SetFlag(args.preserve_boundary, @),
          !.flag_adaptive_scale = SetFlag(args.adaptive_scale, @),
          !.flag_aggresive_sat = SetFlag(args.aggressive_sat, @),
          !.flag_minimum_cost_flow = SetFlag(args.minimum_cost_flow, @),
          !.rng_seed = args.seed]
    /\ trace' = Append(trace, Call("ApplyFlags", args.seed, TRUE))
    /\ pc' = "load"
    /\ UNCHANGED <<args, mRes, i, err, result, ret>>

(* run_quadriflow line 130: field.LoadFromArrays, lines 56-93. *)
LoadFromArrays ==
    /\ pc = "load"
    /\ LET st == Ingest(args.faces, args.num_faces)
           n  == Filled(args.verts, st.vertices)
           loaded == [field EXCEPT
                         !.F = FaceMatrix(st.indices),
                         !.V = VertexMatrix(args.verts, st.vertices, n)]
       IN  IF n < Len(st.vertices)
           THEN /\ field' = loaded
                /\ trace' = Append(trace, Call("LoadFromArrays", args.num_faces, FALSE))
                /\ Throw("out_of_range")
           ELSE /\ field' = NormalizeMesh(loaded)
                /\ trace' = trace \o <<Call("LoadFromArrays", args.num_faces, TRUE),
                                       Call("NormalizeMesh", 0, TRUE)>>
                /\ pc' = "initialize"
                /\ err' = err
    /\ UNCHANGED <<args, mRes, i, result, ret>>

---------------------------------------------------------------------------
(* The run up to the end of ingestion. *)

InitIngest ==
    /\ InRangeCalls(MaxVerts, MaxFaces, FALSE, NoFlags) \/ BadIndexCalls
    /\ Fresh

NextIngest == BindingChecks \/ RunChecks \/ ApplyFlags \/ LoadFromArrays

SpecIngest == InitIngest /\ [][NextIngest]_vars

---------------------------------------------------------------------------
(* The external engine, as far as the pipeline reads what it leaves.       *)

(* Half-edge e (0-based) of face e / 3 runs from corner e % 3 to corner    *)
(* (e + 1) % 3.                                                            *)
EdgeFrom(F, e) == F[(e \div TriCols) + 1][(e % TriCols) + 1]

EdgeTo(F, e) == F[(e \div TriCols) + 1][((e + 1) % TriCols) + 1]

(* The adjacency the engine builds: the opposite half-edge of e, or -1.    *)
Opposite(F, e) ==
    LET cands == {d \in 0..(TriCols * Len(F) - 1) :
                     /\ d # e
                     /\ EdgeFrom(F, d) = EdgeTo(F, e)
                     /\ EdgeTo(F, d) = EdgeFrom(F, e)}
    IN  IF EdgeFrom(F, e) = EdgeTo(F, e) \/ cands = {}
        THEN 0 - 1
        ELSE MinOf(cands)

(* The finest level of the hierarchy after Parametrizer::Initialize: the   *)
(* compact mesh, its adjacency, and constraint arrays whose weights the    *)
(* engine left at w.                                                       *)
BuildHierarchy(fld, w) ==
    [mF   |-> fld.F,
     mV   |-> fld.V,
     mE2E |-> [e \in 1..(TriCols * Len(fld.F)) |-> Opposite(fld.F, e - 1)],
     mCO  |-> [v \in 1..Len(fld.V) |-> Zero3],
     mCQ  |-> [v \in 1..Len(fld.V) |-> Zero3],
     mCOw |-> [v \in 1..Len(fld.V) |-> w],
     mCQw |-> [v \in 1..Len(fld.V) |-> w]]

(* Hierarchy::clearConstraints: every constraint and weight back to zero.  *)
Cleared(h) ==
    [h EXCEPT !.mCO  = [v \in DOMAIN h.mCO |-> Zero3],
              !.mCQ  = [v \in DOMAIN h.mCQ |-> Zero3],
              !.mCOw = [v \in DOMAIN h.mCOw |-> 0],
              !.mCQw = [v \in DOMAIN h.mCQw |-> 0]]

(* Position of output vertex k in the engine's normalised space. *)
OutPoint(k) == <<k, 1, 0>>

(* What Parametrizer::ComputeIndexMap may leave in O_compact and F_compact: *)
(* positions, and 4-tuples of indices into them.                           *)
CompactOutputs ==
    UNION {{<<[k \in 1..n |-> OutPoint(k)], Fc>> :
               Fc \in UNION {[1..m -> [1..QuadCols -> 0..(n - 1)]] :
                                m \in 0..MaxOutFaces}} :
           n \in 0..MaxOutVerts}

---------------------------------------------------------------------------
(* run_quadriflow, lines 131-173: the stages after ingestion.              *)

(* The engine call made at each position, with the argument it is given.  *)
EngineCallAt ==
    [initialize  |-> <<"Initialize", args.target_faces>>,
     clear       |-> <<"clearConstraints", 0>>,
     propagate   |-> <<"propagateConstraints", 0>>,
     orient      |-> <<"optimize_orientations", 0>>,
     orient_sing |-> <<"ComputeOrientationSingularities", 0>>,
     slope       |-> <<"EstimateSlope", field.flag_adaptive_scale>>,
     scale       |-> <<"optimize_scale", field.flag_adaptive_scale>>,
     positions   |-> <<"optimize_positions", field.flag_adaptive_scale>>,
     pos_sing    |-> <<"ComputePositionSingularities", 0>>,
     index_map   |-> <<"ComputeIndexMap", 0>>]

Invoke(at, ok) == Append(trace, Call(EngineCallAt[at][1], EngineCallAt[at][2], ok))

(* An engine call that returns: it is recorded and the run moves on. *)
EngineCall(at, next) ==
    /\ pc = at
    /\ trace' = Invoke(at, TRUE)
    /\ pc' = next

AfterInitialize == IF field.flag_preserve_boundary # 0 THEN "clear" ELSE "orient"

(* line 131 *)
Initialize ==
    /\ EngineCall("initialize", AfterInitialize)
    /\ \E w \in {0, 1} : mRes' = BuildHierarchy(field, w)
    /\ UNCHANGED <<args, field, i, err, result, ret>>

(* line 136; line 137 starts the loop at i = 0 *)
ClearConstraints ==
    /\ EngineCall("clear", "assign")
    /\ mRes' = Cleared(mRes)
    /\ i' = 0
    /\ UNCHANGED <<args, field, err, result, ret>>

(* lines 138-155: the body of the loop for half-edge e = i *)
IsBoundaryEdge(h, e) == h.mE2E[e + 1] = 0 - 1

HasLength(edge) == squaredNorm(edge) > 0

(* AssignEdge that constrains only the vertex the half-edge starts at. *)
AssignEdgeFromOnly(h, e) ==
    LET i0 == EdgeFrom(h.mF, e)
        i1 == EdgeTo(h.mF, e)
        p0 == h.mV[i0 + 1]
        p1 == h.mV[i1 + 1]
        edge == VSub(p1, p0)
    IN  IF IsBoundaryEdge(h, e) /\ HasLength(edge)
        THEN [h EXCEPT
                 !.mCO  = [@ EXCEPT ![i0 + 1] = p0],
                 !.mCQ  = [@ EXCEPT ![i0 + 1] = normalize(edge)],
                 !.mCQw = [@ EXCEPT ![i0 + 1] = 1],
                 !.mCOw = [@ EXCEPT ![i0 + 1] = 1]]
        ELSE h

(* AssignEdge that keeps the constraint a vertex already has: the first   *)
(* boundary edge wins.                                                     *)
AssignEdgeFirstWins(h, e) ==
    LET i0 == EdgeFrom(h.mF, e)
        i1 == EdgeTo(h.mF, e)
        p0 == h.mV[i0 + 1]
        p1 == h.mV[i1 + 1]
        edge == VSub(p1, p0)
        New(v) == h.mCQw[v + 1] = 0
        Put(f, v, x) == IF New(v) THEN [f EXCEPT ![v + 1] = x] ELSE f
    IN  IF IsBoundaryEdge(h, e) /\ HasLength(edge)
        THEN [h EXCEPT
                 !.mCO  = Put(Put(@, i0, p0), i1, p1),
                 !.mCQ  = Put(Put(@, i0, normalize(edge)), i1, normalize(edge)),
                 !.mCQw = Put(Put(@, i0, 1), i1, 1),
                 !.mCOw = Put(Put(@, i0, 1), i1, 1)]
        ELSE h

AssignEdge(h, e) ==
    LET i0 == EdgeFrom(h.mF, e)
        i1 == EdgeTo(h.mF, e)
        p0 == h.mV[i0 + 1]
        p1 == h.mV[i1 + 1]
        edge == VSub(p1, p0)
    IN  IF IsBoundaryEdge(h, e) /\ HasLength(edge)
        THEN [h EXCEPT
                 !.mCO  = [[@ EXCEPT ![i0 + 1] = p0] EXCEPT ![i1 + 1] = p1],
                 !.mCQ  = [[@ EXCEPT ![i0 + 1] = normalize(edge)]
                              EXCEPT ![i1 + 1] = normalize(edge)],
                 !.mCQw = [[@ EXCEPT ![i0 + 1] = 1] EXCEPT ![i1 + 1] = 1],
                 !.mCOw = [[@ EXCEPT ![i0 + 1] = 1] EXCEPT ![i1 + 1] = 1]]
        ELSE h

(* line 137: one iteration, then the loop test *)
BoundaryStep ==
    /\ pc = "assign"
    /\ i < TriCols * Len(mRes.mF)
    /\ mRes' = AssignEdge(mRes, i)
    /\ i' = i + 1
    /\ IF i + 1 < TriCols * Len(mRes.mF)
       THEN pc' = "assign" /\ trace' = trace
       ELSE pc' = "propagate" /\ trace' = Append(trace, Call("boundary loop", i + 1, TRUE))
    /\ UNCHANGED <<args, field, err, result, ret>>

(* line 157 *)
PropagateConstraints ==
    /\ EngineCall("propagate", "orient")
    /\ UNCHANGED <<args, field, mRes, i, err, result, ret>>

(* line 161 *)
OptimizeOrientations ==
    /\ EngineCall("orient", "orient_sing")
    /\ UNCHANGED <<args, field, mRes, i, err, result, ret>>

(* AfterOrientationSingularities that estimates the slope in every run. *)
AfterOrientationSingularitiesAlways == "slope"

(* lines 162-164 *)
AfterOrientationSingularities ==
    IF field.flag_adaptive_scale = 1 THEN "slope" ELSE "scale"

ComputeOrientationSingularities ==
    /\ EngineCall("orient_sing", AfterOrientationSingularities)
    /\ UNCHANGED <<args, field, mRes, i, err, result, ret>>

(* line 165 *)
EstimateSlope ==
    /\ EngineCall("slope", "scale")
    /\ UNCHANGED <<args, field, mRes, i, err, result, ret>>

(* line 168 *)
OptimizeScale ==
    /\ EngineCall("scale", "force")
    /\ UNCHANGED <<args, field, mRes, i, err, result, ret>>

(* ForceAdaptiveScale without the assignment of line 169. *)
ForceAdaptiveScaleSkipped ==
    /\ pc = "force"
    /\ pc' = "positions"
    /\ UNCHANGED <<args, field, mRes, i, trace, err, result, ret>>

(* line 169 *)
ForceAdaptiveScale ==
    /\ pc = "force"
    /\ field' = [field EXCEPT !.flag_adaptive_scale = 1]
    /\ pc' = "positions"
    /\ UNCHANGED <<args, mRes, i, trace, err, result, ret>>

(* line 170 *)
OptimizePositions ==
    /\ EngineCall("positions", "pos_sing")
    /\ UNCHANGED <<args, field, mRes, i, err, result, ret>>

(* line 171 *)
ComputePositionSingularities ==
    /\ EngineCall("pos_sing", "index_map")
    /\ UNCHANGED <<args, field, mRes, i, err, result, ret>>

(* line 173 *)
ComputeIndexMap ==
    /\ EngineCall("index_map", "extract")
    /\ \E out \in CompactOutputs :
          field' = [field EXCEPT !.O_compact = out[1], !.F_compact = out[2]]
    /\ UNCHANGED <<args, mRes, i, err, result, ret>>

(* An engine call that throws: the exception passes through              *)
(* run_quadriflow and the binding unchanged.                               *)
EngineThrows ==
    /\ pc \in DOMAIN EngineCallAt
    /\ trace' = Invoke(pc, FALSE)
    /\ Throw("engine error")
    /\ UNCHANGED <<args, field, mRes, i, result, ret>>

---------------------------------------------------------------------------
(* run_quadriflow, lines 176-200: the result.                              *)

Denormalized(fld, v) ==
    VAdd(VScale(fld.O_compact[v], fld.normalize_scale), fld.normalize_offset)

FlatVertices(fld, n) ==
    [k \in 1..(n * TriCols) |->
        Denormalized(fld, ((k - 1) \div TriCols) + 1)[((k - 1) % TriCols) + 1]]

(* FlatFaces that copies three indices per face. *)
FlatFacesTri(fld, n) ==
    [k \in 1..(n * TriCols) |->
        fld.F_compact[((k - 1) \div TriCols) + 1][((k - 1) % TriCols) + 1]]

FlatFaces(fld, n) ==
    [k \in 1..(n * QuadCols) |->
        fld.F_compact[((k - 1) \div QuadCols) + 1][((k - 1) % QuadCols) + 1]]

(* EmptyResult that needs both counts to be zero. *)
EmptyResultBoth(nv, nf) == nv = 0 /\ nf = 0

EmptyResult(nv, nf) == nv = 0 \/ nf = 0

Extract ==
    /\ pc = "extract"
    /\ LET nv == Len(field.O_compact)
           nf == Len(field.F_compact)
       IN  IF EmptyResult(nv, nf)
           THEN /\ Throw("QuadriFlow produced an empty mesh")
                /\ result' = result
           ELSE /\ result' = [num_vertices |-> nv, num_faces |-> nf,
                              vertices |-> FlatVertices(field, nv),
                              faces |-> FlatFaces(field, nf)]
                /\ pc' = "convert"
                /\ err' = err
    /\ UNCHANGED <<args, field, mRes, i, trace, ret>>

(* py_quadriflow_remesh, lines 44-55: arrays of shape (num_vertices, 3)    *)
(* and (num_faces, 4) filled from the result.                              *)
MakeTuple ==
    /\ pc = "convert"
    /\ ret' = [num_vertices |-> result.num_vertices,
               num_faces |-> result.num_faces,
               vertices |-> SubSeq(result.vertices, 1, result.num_vertices * TriCols),
               faces |-> SubSeq(result.faces, 1, result.num_faces * QuadCols)]
    /\ pc' = "done"
    /\ UNCHANGED <<args, field, mRes, i, trace, err, result>>

---------------------------------------------------------------------------
(* The whole call. *)

(* Calls of every shape, emptiness, target sign, seed and flag setting on  *)
(* one triangle.                                                           *)
PipelineCalls ==
    \E vc \in {TriCols - 1, TriCols}, fc \in {TriCols, TriCols + 1},
       verts \in {<<>>, GridLayout(TriCols)}, m \in {0, 1},
       target \in (0 - 1)..1, seed \in {0, MaxSeed}, fl \in Flags :
        args = MakeArgs(vc, fc, verts, m,
                        [k \in 1..(fc * m) |-> (k - 1) % TriCols],
                        target, seed, fl)

Init ==
    /\ PipelineCalls \/ BadIndexCalls
    /\ Fresh

Next ==
    \/ BindingChecks
    \/ RunChecks
    \/ ApplyFlags
    \/ LoadFromArrays
    \/ Initialize
    \/ ClearConstraints
    \/ BoundaryStep
    \/ PropagateConstraints
    \/ OptimizeOrientations
    \/ ComputeOrientationSingularities
    \/ EstimateSlope
    \/ OptimizeScale
    \/ ForceAdaptiveScale
    \/ OptimizePositions
    \/ ComputePositionSingularities
    \/ ComputeIndexMap
    \/ EngineThrows
    \/ Extract
    \/ MakeTuple

Spec == Init /\ [][Next]_vars

(* The run up to the end of boundary-constraint derivation, on every       *)
(* in-range mesh and position layout, with preserve-boundary set.          *)
BoundaryFlags == [NoFlags EXCEPT !.preserve_boundary = TRUE]

InitBoundary ==
    /\ InRangeCalls(MaxBoundaryVerts, MaxBoundaryFaces, TRUE, BoundaryFlags)
    /\ Fresh

NextBoundary ==
    \/ BindingChecks
    \/ RunChecks
    \/ ApplyFlags
    \/ LoadFromArrays
    \/ Initialize
    \/ ClearConstraints
    \/ BoundaryStep
    \/ PropagateConstraints
    \/ EngineThrows

SpecBoundary == InitBoundary /\ [][NextBoundary]_vars

---------------------------------------------------------------------------
(* Properties of ingestion. *)

(* The mesh has been ingested and normalised. *)
Ingested == \E k \in DOMAIN trace : trace[k].call = "NormalizeMesh"

Corners == 1..(TriCols * args.num_faces)

(* Input index and compact index of corner s (faces in input order,       *)
(* corners 0, 1, 2).                                                       *)
InputAt(s) == args.faces[s]

CompactAt(s) == field.F[((s - 1) \div TriCols) + 1][((s - 1) % TriCols) + 1]

Referenced == {InputAt(s) : s \in Corners}

(* Number of distinct input indices first referenced before that of s. *)
FirstRef(s) == MinOf({u \in Corners : InputAt(u) = InputAt(s)})

Rank(s) == Cardinality({InputAt(u) : u \in 1..(FirstRef(s) - 1)})

(* C2: after ingestion, two corners have the same compact index exactly   *)
(* when they reference the same input index, the compact index of an      *)
(* input index is the number of distinct input indices first referenced   *)
(* before it, and the compact indices are exactly 0 .. K - 1.             *)
C2_FirstReferenceOrder ==
    Ingested =>
        /\ Len(field.F) = args.num_faces
        /\ \A s, t \in Corners :
              (CompactAt(s) = CompactAt(t)) <=> (InputAt(s) = InputAt(t))
        /\ \A s \in Corners : CompactAt(s) = Rank(s)
        /\ {CompactAt(s) : s \in Corners} = 0..(Len(field.V) - 1)

(* Two faces share an input index, and an input index got a compact index *)
(* other than itself.                                                      *)
C2_Witness ==
    /\ Ingested
    /\ \E s \in 1..TriCols, t \in (TriCols + 1)..(TriCols * args.num_faces) :
          InputAt(s) = InputAt(t)
    /\ \E s \in Corners : CompactAt(s) # InputAt(s)

(* Input position of compact vertex k: normalisation undone. *)
InputPosition(k) == VAdd(field.V[k], field.normalize_offset)

Degenerate(f) ==
    /\ InputAt(TriCols * (f - 1) + 1) = InputAt(TriCols * (f - 1) + 2)
    /\ InputAt(TriCols * (f - 1) + 2) = InputAt(TriCols * (f - 1) + 3)

(* C9: ingestion of M in-range triangles over N vertices leaves 3 * M     *)
(* face indices, each below the compact vertex count K; K is the number   *)
(* of distinct input indices referenced, at most N; the compact vertices  *)
(* are the referenced input vertices and no others; a face with three     *)
(* identical indices is kept.                                              *)
C9_CompactMesh ==
    Ingested =>
        /\ Len(field.F) = args.num_faces
        /\ \A f \in DOMAIN field.F : \A c \in 1..TriCols :
              /\ Len(field.F[f]) = TriCols
              /\ field.F[f][c] \in 0..(Len(field.V) - 1)
        /\ Len(field.V) = Cardinality(Referenced)
        /\ Len(field.V) <= args.num_vertices
        /\ {InputPosition(k) : k \in DOMAIN field.V}
              = {args.verts[x + 1] : x \in Referenced}
        /\ \A f \in 1..args.num_faces :
              Degenerate(f) =>
                  field.F[f][1] = field.F[f][2] /\ field.F[f][2] = field.F[f][3]

(* A degenerate face was ingested and an input vertex was left out. *)
C9_Witness ==
    /\ Ingested
    /\ \E f \in 1..args.num_faces : Degenerate(f)
    /\ Len(field.V) < args.num_vertices

---------------------------------------------------------------------------
(* Properties of the checks and of the stage order. *)

PreconditionErrors ==
    {"vertices must have shape (N, 3)", "faces must have shape (M, 3)",
     "Input mesh is empty", "target_faces must be positive"}

EmptyResultError == "QuadriFlow produced an empty mesh"

NothingRun ==
    /\ trace = <<>>
    /\ field = Parametrizer0
    /\ mRes = Hierarchy0
    /\ result = NoResult
    /\ ret = NoResult

PreconditionViolated ==
    \/ args.num_vertices = 0
    \/ args.num_faces = 0
    \/ args.target_faces <= 0
    \/ args.fcols # TriCols

(* C1: a call with no vertices, no faces, a non-positive target or a face *)
(* array that is not 3 columns wide never gets past the checks: it ends   *)
(* in a precondition error with no flag or seed applied, no mesh          *)
(* ingested and no engine call made.                                       *)
C1_PreconditionFailure ==
    PreconditionViolated =>
        /\ pc \in {"binding", "checks", "error"}
        /\ pc = "error" => err \in PreconditionErrors
        /\ NothingRun

(* A call with a well-shaped, non-empty mesh and target 0 has been        *)
(* rejected by run_quadriflow.                                             *)
C1_Witness ==
    /\ args.target_faces = 0
    /\ args.num_vertices > 0 /\ args.num_faces > 0
    /\ pc = "error"
    /\ err = "target_faces must be positive"
    /\ NothingRun

HasBadIndex ==
    /\ args.vcols = TriCols /\ args.fcols = TriCols
    /\ args.num_vertices > 0 /\ args.num_faces > 0
    /\ \E k \in DOMAIN args.faces : OutOfRange(args.faces[k], args.num_vertices)

(* C8: a non-empty mesh with a face index below 0 or not below N ends in  *)
(* an error: nothing is returned, the mesh is not normalised and no       *)
(* engine stage is invoked.                                                *)
C8_BadIndexFatal ==
    HasBadIndex =>
        /\ pc \in {"binding", "checks", "flags", "load", "error"}
        /\ pc = "error" => err \in PreconditionErrors \cup {"out_of_range"}
        /\ \A k \in DOMAIN trace : trace[k].call \in {"ApplyFlags", "LoadFromArrays"}
        /\ \A k \in DOMAIN trace : trace[k].call = "LoadFromArrays" => ~trace[k].ok
        /\ mRes = Hierarchy0
        /\ result = NoResult
        /\ ret = NoResult

(* Ingestion threw on a mesh whose only bad indices are negative. *)
C8_Witness ==
    /\ HasBadIndex
    /\ \A k \in DOMAIN args.faces : args.faces[k] < args.num_vertices
    /\ pc = "error"
    /\ err = "out_of_range"

IsPrefix(a, b) == Len(a) <= Len(b) /\ SubSeq(b, 1, Len(a)) = a

Opt(b, stages) == IF b THEN stages ELSE <<>>

(* The stages of a run, from the caller's flags. *)
ExpectedStages ==
    <<"ApplyFlags", "LoadFromArrays", "NormalizeMesh", "Initialize">>
    \o Opt(args.preserve_boundary,
           <<"clearConstraints", "boundary loop", "propagateConstraints">>)
    \o <<"optimize_orientations", "ComputeOrientationSingularities">>
    \o Opt(args.adaptive_scale, <<"EstimateSlope">>)
    \o <<"optimize_scale", "optimize_positions",
         "ComputePositionSingularities", "ComputeIndexMap">>

NoFailure == \A k \in DOMAIN trace : trace[k].ok

(* Every stage through the index map has returned. *)
StagesCompleted ==
    /\ trace # <<>>
    /\ trace[Len(trace)].call = "ComputeIndexMap"
    /\ NoFailure

(* C3: while no stage has failed the stages run so far are the first      *)
(* stages of the expected order, and once the index map is computed they  *)
(* are exactly the expected stages, each once.                             *)
C3_StageOrder ==
    /\ NoFailure => IsPrefix(Names(trace), ExpectedStages)
    /\ StagesCompleted => Names(trace) = ExpectedStages
    /\ pc \in {"extract", "convert", "done"} => StagesCompleted

(* A run with preserve-boundary set and adaptive-scale not set returned. *)
C3_Witness ==
    /\ pc = "done"
    /\ args.preserve_boundary
    /\ ~args.adaptive_scale
    /\ Len(trace) = Len(ExpectedStages)

AsFlag(b) == IF b THEN 1 ELSE 0

FlagsApplied == trace # <<>>

(* Line 169 has run. *)
Forced ==
    \/ pc = "positions"
    \/ \E k \in DOMAIN trace : trace[k].call = "optimize_positions"

(* C5: position optimisation is given adaptive-scale = 1, slope           *)
(* estimation and scale optimisation the caller's value; from the moment  *)
(* the flags are applied every flag and the seed keep the caller's value, *)
(* but for adaptive-scale, which is 1 from line 169 on.                    *)
C5_AdaptiveScaleOverride ==
    /\ \A k \in DOMAIN trace :
          /\ trace[k].call = "optimize_positions" => trace[k].arg = 1
          /\ trace[k].call \in {"optimize_scale", "EstimateSlope"} =>
                trace[k].arg = AsFlag(args.adaptive_scale)
    /\ FlagsApplied =>
          /\ field.flag_preserve_sharp = AsFlag(args.preserve_sharp)
          /\ field.flag_preserve_boundary = AsFlag(args.preserve_boundary)
          /\ field.flag_aggresive_sat = AsFlag(args.aggressive_sat)
          /\ field.flag_minimum_cost_flow = AsFlag(args.minimum_cost_flow)
          /\ field.rng_seed = args.seed
          /\ field.flag_adaptive_scale =
                IF Forced THEN 1 ELSE AsFlag(args.adaptive_scale)

(* Position optimisation ran in a call whose adaptive-scale flag was      *)
(* not set.                                                                *)
C5_Witness ==
    /\ ~args.adaptive_scale
    /\ \E k \in DOMAIN trace :
          trace[k].call = "optimize_positions" /\ trace[k].ok
    /\ \E k \in DOMAIN trace : trace[k].call = "optimize_scale" /\ trace[k].arg = 0

(* C6: the call ends in the empty-result error exactly when every stage   *)
(* through the index map returned and the compact output has no vertex    *)
(* or no face; the error is none of the precondition errors and nothing   *)
(* is returned with it.                                                    *)
C6_EmptyResult ==
    /\ err = EmptyResultError =>
          /\ pc = "error"
          /\ StagesCompleted
          /\ Len(field.O_compact) = 0 \/ Len(field.F_compact) = 0
          /\ result = NoResult
          /\ ret = NoResult
    /\ (/\ StagesCompleted
        /\ pc # "extract"
        /\ Len(field.O_compact) = 0 \/ Len(field.F_compact) = 0)
          => err = EmptyResultError
    /\ EmptyResultError \notin PreconditionErrors
    /\ err = EmptyResultError => ~PreconditionViolated

(* The empty-result error, with output vertices and no output face. *)
C6_Witness ==
    /\ err = EmptyResultError
    /\ Len(field.O_compact) > 0
    /\ Len(field.F_compact) = 0

(* A result has been built. *)
HasResult == pc \in {"convert", "done"}

WellFormed(r) ==
    /\ r.num_vertices = Len(field.O_compact)
    /\ r.num_faces = Len(field.F_compact)
    /\ r.num_vertices > 0
    /\ r.num_faces > 0
    /\ Len(r.vertices) = TriCols * r.num_vertices
    /\ Len(r.faces) = QuadCols * r.num_faces
    /\ \A k \in DOMAIN r.faces : r.faces[k] \in 0..(r.num_vertices - 1)

(* C7: a result has 4 * num_faces face indices and 3 * num_vertices       *)
(* coordinates, both counts positive and equal to the lengths of          *)
(* F_compact and O_compact, and every face index below num_vertices.      *)
C7_ResultShape ==
    /\ HasResult => WellFormed(result)
    /\ pc = "done" => WellFormed(ret)

(* A result with a face was returned. *)
C7_Witness ==
    /\ pc = "done"
    /\ ret.num_faces >= 1
    /\ Len(ret.faces) >= QuadCols

---------------------------------------------------------------------------
(* Properties of the boundary constraints. *)

(* Constraint derivation is over and orientation optimisation has not     *)
(* begun.                                                                  *)
ConstraintsDerived ==
    /\ field.flag_preserve_boundary # 0
    /\ pc \in {"propagate", "orient"}

HalfEdges == 0..(TriCols * Len(mRes.mF) - 1)

HVerts == 0..(Len(mRes.mV) - 1)

BoundaryEdges == {e \in HalfEdges : IsBoundaryEdge(mRes, e)}

EdgeVector(e) ==
    VSub(mRes.mV[EdgeTo(mRes.mF, e) + 1], mRes.mV[EdgeFrom(mRes.mF, e) + 1])

Endpoints(e) == {EdgeFrom(mRes.mF, e), EdgeTo(mRes.mF, e)}

FullWeight(v) == mRes.mCOw[v + 1] = 1 /\ mRes.mCQw[v + 1] = 1

(* C4 as stated: after constraint derivation both endpoints of every      *)
(* half-edge with no opposite have position weight and direction weight 1. *)
C4_AllBoundaryEdges ==
    ConstraintsDerived =>
        \A e \in BoundaryEdges : \A v \in Endpoints(e) : FullWeight(v)

(* C4, amended: after constraint derivation both endpoints of every       *)
(* half-edge with no opposite and non-zero length have position weight    *)
(* and direction weight 1.                                                 *)
C4_BoundaryEdgesWithLength ==
    ConstraintsDerived =>
        \A e \in BoundaryEdges :
            HasLength(EdgeVector(e)) => \A v \in Endpoints(e) : FullWeight(v)

(* Constraints were derived on a mesh with boundary half-edges of         *)
(* non-zero length and one of zero length between two vertices.           *)
C4_Witness ==
    /\ ConstraintsDerived
    /\ \E e \in BoundaryEdges : HasLength(EdgeVector(e))
    /\ \E e \in BoundaryEdges :
          ~HasLength(EdgeVector(e)) /\ Cardinality(Endpoints(e)) = 2

(* The boundary half-edges vertex v is an endpoint of. *)
Incident(v) == {e \in BoundaryEdges : v \in Endpoints(e)}

IncidentWithLength(v) == {e \in Incident(v) : HasLength(EdgeVector(e))}

(* The unit vector of an edge; an edge of zero length has none. *)
Direction(edge) == IF HasLength(edge) THEN normalize(edge) ELSE Zero3

ConstrainedBy(v, e) ==
    /\ mRes.mCQ[v + 1] = Direction(EdgeVector(e))
    /\ mRes.mCO[v + 1] = mRes.mV[v + 1]

===========================================================================
